---------------------------- MODULE Spec2Model ----------------------------
(***************************************************************************)
(* A model of the connectsphere backend: the REST handlers of the two      *)
(* server revisions (src/server.js and the earlier src/unnamed/part_002,   *)
(* which uses the schemas of src/models/Notification.js, part_000 and      *)
(* part_001) over the document store.                                      *)
(*                                                                         *)
(* A handler is a sequence of steps, one per `await`: between two awaits   *)
(* the JavaScript of a handler runs without interruption, so everything    *)
(* from one await to the next (or to the response) is one step.  A request *)
(* in flight keeps the documents it loaded (`a`, `b`) as local copies.     *)
(*                                                                         *)
(* Document.save() is modelled as Mongoose performs it: a save sends only  *)
(* the changes made to the loaded copy.  array.push() is sent as $push     *)
(* (appended to the STORED array, __v incremented, no version test);       *)
(* assigning a different array to a path is sent as $set of the whole      *)
(* array guarded by the __v the copy was loaded with (VersionError when    *)
(* the stored __v moved on); a copy with no change sends nothing.          *)
(***************************************************************************)
EXTENDS Integers, Sequences, FiniteSets, TLC

VARIABLES rev, users, posts, notifications, emitted, reqs, resp, nreq, hist,
          currentConnections, others, sockets

vars == <<rev, users, posts, notifications, emitted, reqs, resp, nreq, hist,
          currentConnections, others, sockets>>

\* The registered users (tokens are only ever issued to these), and an id
\* that belongs to no user: findById of it yields null.
UserIds == {"u1", "u2"}
Ghost == "u0"
PostIds == {"p1", "p2"}
Revisions == {"server", "part_002"}

\* Bounds of the model: requests served in a behaviour (one after the other,
\* and where they overlap), requests in flight.
\* `nreq` counts the requests served; `hist` records, of the operations in
\* Recorded, which requests were received.
MaxReqs == 4
MaxConcReqs == 2
MaxPostReqs == 3
MaxInFlight == 2
Slots == 1..MaxInFlight

Null == "null"

Recorded == {"like"}

-----------------------------------------------------------------------------
(* The live channel: the sockets of socket.io *)

\* The sockets followed one by one.  `others` counts the accepted sockets
\* that are not followed: they were connected before and stay connected.
SocketIds == {"s1", "s2", "s3"}

\* A socket that has not connected yet.  Of one that has: `user` is the user
\* whose client opened it (the server is told nothing of it), `rooms` the
\* rooms it has joined.
NoSocket == [state |-> "none", user |-> Null, rooms |-> {}]

\* The sockets in a room: those io.to(room).emit reaches.
Joined(room) ==
    {k \in SocketIds : sockets[k].state = "connected" /\ room \in sockets[k].rooms}

\* No socket has connected.
LiveIdle ==
    /\ currentConnections = 0
    /\ others = 0
    /\ sockets = [k \in SocketIds |-> NoSocket]

\* A request handler registers no socket and closes none.
LiveUnchanged == UNCHANGED <<currentConnections, others, sockets>>

-----------------------------------------------------------------------------
(* Sequences as the arrays of the documents *)

RECURSIVE Filter(_, _)
\* Array.prototype.filter with the predicate "element is in keep"
Filter(s, keep) ==
    IF s = <<>> THEN <<>>
    ELSE IF Head(s) \in keep THEN <<Head(s)>> \o Filter(Tail(s), keep)
         ELSE Filter(Tail(s), keep)

Range(s) == {s[i] : i \in 1..Len(s)}

Count(x, s) == Cardinality({i \in 1..Len(s) : s[i] = x})

\* MongooseArray.includes: equality of ids by value (an ObjectId argument is
\* compared by its hex string); a null element equals no id
Includes(s, x) == \E i \in 1..Len(s) : s[i] # Null /\ s[i] = x

-----------------------------------------------------------------------------
(* Documents *)

NoUser == [ok |-> FALSE, following |-> <<>>, followers |-> <<>>, v |-> 0]
NewUser == [ok |-> TRUE, following |-> <<>>, followers |-> <<>>, v |-> 0]

NoPost == [ok |-> FALSE, author |-> Null, visibility |-> "public", content |-> 0,
           likes |-> <<>>, comments |-> <<>>, createdAt |-> 0, v |-> 0]

\* User.findById(id): the stored document, or null
FindUser(id) == IF id \in UserIds THEN users[id] ELSE NoUser

\* Post.findById(id)
FindPost(id) == IF id \in PostIds THEN posts[id] ELSE NoPost

\* The state of the store a request is measured against.
Snapshot == [users |-> users, posts |-> posts, n |-> Len(notifications),
             e |-> Len(emitted)]

NoSnapshot == [users |-> [u \in UserIds |-> NoUser], posts |-> [p \in PostIds |-> NoPost],
               n |-> 0, e |-> 0]

\* A slot with no request in it.  Of a request in flight: `a` is the loaded
\* document of the acting user, `b` that of the other user, `p` the loaded
\* post, `dirty` the loaded copies an assignment has marked modified.
NoBody == [content |-> 0, visibility |-> Null]

Idle == [op |-> "idle", actor |-> Null, arg |-> Null, body |-> NoBody, pc |-> "idle",
         a |-> NoUser, b |-> NoUser, p |-> NoPost, dirty |-> {}, pre |-> NoSnapshot]

\* No request was answered in the last step.  Of an answer: `status` is the
\* HTTP status, `fault` whether a rejected store operation caused it, `out`
\* the list in the body (a post's likes, the posts of a listing), `flag` the
\* isFollowing of a profile.
NoResp == [op |-> "none", actor |-> Null, arg |-> Null, body |-> NoBody, status |-> 0,
           fault |-> FALSE, pre |-> NoSnapshot, out |-> <<>>, flag |-> FALSE]

Quiescent == \A s \in Slots : reqs[s].op = "idle"

\* A request enters a handler: express routes it once the token is verified.
Begin(s, op, actor, arg, body, pc) ==
    /\ reqs[s].op = "idle"
    /\ nreq < MaxReqs
    /\ nreq' = nreq + 1
    /\ hist' = IF op \in Recorded THEN hist \cup {<<op, actor, arg>>} ELSE hist
    /\ reqs' = [reqs EXCEPT ![s] = [Idle EXCEPT !.op = op, !.actor = actor, !.arg = arg,
                                         !.body = body, !.pc = pc, !.pre = Snapshot]]
    /\ resp' = NoResp
    /\ UNCHANGED <<rev, users, posts, notifications, emitted>>

\* res.status(status).json(out): the request is over.
Respond(s, status, out) ==
    /\ resp' = [op |-> reqs[s].op, actor |-> reqs[s].actor, arg |-> reqs[s].arg,
                body |-> reqs[s].body, status |-> status, fault |-> FALSE,
                pre |-> reqs[s].pre, out |-> out, flag |-> FALSE]
    /\ reqs' = [reqs EXCEPT ![s] = Idle]

\* The handler goes on to its next await.
Goto(s, pc) ==
    /\ reqs' = [reqs EXCEPT ![s].pc = pc]
    /\ resp' = NoResp

\* The handler's catch block: console.error and a 500.
Caught(s) == Respond(s, 500, <<>>)

\* An awaited store operation rejects (the store is unreachable, the write is
\* refused): the handler's catch block answers 500 and nothing more of the
\* handler runs.  What earlier steps saved stays saved.
Fail(s) ==
    /\ reqs[s].op # "idle"
    /\ resp' = [op |-> reqs[s].op, actor |-> reqs[s].actor, arg |-> reqs[s].arg,
                body |-> reqs[s].body, status |-> 500, fault |-> TRUE,
                pre |-> reqs[s].pre, out |-> <<>>, flag |-> FALSE]
    /\ reqs' = [reqs EXCEPT ![s] = Idle]
    /\ UNCHANGED <<rev, users, posts, notifications, emitted, nreq, hist>>

-----------------------------------------------------------------------------
(* Notifications *)

\* The paths a Notification must have to pass validation on save: the inline
\* NotificationSchema of server.js, and models/Notification.js (required by
\* part_002), which also requires fromUsername.
RequiredPaths ==
    IF rev = "server" THEN {"userId", "fromUserId", "type"}
    ELSE {"userId", "type", "fromUserId", "fromUsername"}

\* new Notification({userId, fromUserId, type, postId}): no handler of either
\* revision supplies fromUsername.
NewNotification(target, from, type, postId) ==
    [userId |-> target, fromUserId |-> from, fromUsername |-> Null, type |-> type,
     postId |-> postId]

Validates(n) == \A f \in RequiredPaths : n[f] # Null

\* The event of a stored notification, whoever was in the room.
EventOf(n) == [room |-> n.userId, from |-> n.fromUserId, type |-> n.type,
               postId |-> n.postId]

\* The emit of a notification that was not saved.
SaveAndEmit_EmitOnly(n) ==
    /\ emitted' = Append(emitted, EventOf(n) @@ [to |-> Joined(n.userId)])
    /\ UNCHANGED notifications

\* await notification.save(); io.to(room).emit('notification', ...): the
\* record is inserted, then the event is emitted to the target's room.  A
\* ValidationError rejects the save, and the emit is never reached.
SaveAndEmit(n) ==
    /\ notifications' = Append(notifications, n)
    /\ emitted' = Append(emitted, [room |-> n.userId, from |-> n.fromUserId,
                                   type |-> n.type, postId |-> n.postId,
                                   to |-> Joined(n.userId)])

-----------------------------------------------------------------------------
(* POST /api/follow/:userId (server.js), POST /api/follow/:id (part_002) *)

\* if (user._id.toString() === req.params.userId): only server.js has it
RejectsSelfFollow == rev = "server"

\* The test as a plain Array.prototype.includes would make it: the string
\* req.params.userId is identical to no ObjectId.
AlreadyFollowing_ByIdentity(user, target) == FALSE

\* user.following.includes(req.params.userId)
AlreadyFollowing(user, target) == Includes(user.following, target)

\* The first findById: server.js loads the acting user, part_002 the target.
FollowFindFirst(s) ==
    /\ reqs[s].pc = "follow1"
    /\ reqs' = [reqs EXCEPT ![s].pc = "follow2",
                            ![s].a = IF rev = "server" THEN FindUser(reqs[s].actor) ELSE @,
                            ![s].b = IF rev = "server" THEN @ ELSE FindUser(reqs[s].arg)]
    /\ resp' = NoResp
    /\ UNCHANGED <<rev, users, posts, notifications, emitted, nreq, hist>>

\* The second findById, the checks, and the two pushes on the loaded copies.
FollowFindSecond(s) ==
    /\ reqs[s].pc = "follow2"
    /\ LET r == reqs[s]
           a == IF rev = "server" THEN r.a ELSE FindUser(r.actor)
           b == IF rev = "server" THEN FindUser(r.arg) ELSE r.b
       IN  IF ~a.ok \/ ~b.ok THEN Respond(s, 404, <<>>)
           ELSE IF RejectsSelfFollow /\ r.actor = r.arg THEN Respond(s, 400, <<>>)
           ELSE IF AlreadyFollowing(a, r.arg) THEN Respond(s, 200, <<>>)
           ELSE /\ reqs' = [reqs EXCEPT ![s].pc = "followSaveUser",
                                        ![s].a = [a EXCEPT !.following = Append(@, r.arg)],
                                        ![s].b = [b EXCEPT !.followers = Append(@, r.actor)]]
                /\ resp' = NoResp
    /\ UNCHANGED <<rev, users, posts, notifications, emitted, nreq, hist>>

\* await user.save(): $push of the target onto the stored following
FollowSaveUser(s) ==
    /\ reqs[s].pc = "followSaveUser"
    /\ users' = [users EXCEPT ![reqs[s].actor].following = Append(@, reqs[s].arg),
                              ![reqs[s].actor].v = @ + 1]
    /\ Goto(s, "followSaveTarget")
    /\ UNCHANGED <<rev, posts, notifications, emitted, nreq, hist>>

\* await userToFollow.save(): $push of the actor onto the stored followers
FollowSaveTarget(s) ==
    /\ reqs[s].pc = "followSaveTarget"
    /\ users' = [users EXCEPT ![reqs[s].arg].followers = Append(@, reqs[s].actor),
                              ![reqs[s].arg].v = @ + 1]
    /\ Goto(s, "followNotify")
    /\ UNCHANGED <<rev, posts, notifications, emitted, nreq, hist>>

\* await notification.save(), the emit, and res.json
FollowNotify(s) ==
    /\ reqs[s].pc = "followNotify"
    /\ LET n == NewNotification(reqs[s].arg, reqs[s].actor, "follow", Null)
       IN  IF Validates(n)
           THEN SaveAndEmit(n) /\ Respond(s, 200, <<>>)
           ELSE Caught(s) /\ UNCHANGED <<notifications, emitted>>
    /\ UNCHANGED <<rev, users, posts, nreq, hist>>

Follow(s) ==
    \/ FollowFindFirst(s)
    \/ FollowFindSecond(s)
    \/ FollowSaveUser(s)
    \/ FollowSaveTarget(s)
    \/ FollowNotify(s)

BeginFollow(s) ==
    \E actor \in UserIds, target \in UserIds \cup {Ghost} :
        Begin(s, "follow", actor, target, NoBody, "follow1")

-----------------------------------------------------------------------------
(* POST /api/unfollow/:userId (server.js), POST /api/unfollow/:id (part_002) *)

\* user.following.filter((id) => id.toString() !== req.params.userId), and
\* the same filter of the target's followers against the actor.
\* Without_ByIdentity is the filter with the toString() left out: an
\* ObjectId is !== to every string, and every element is kept.
Without_ByIdentity(arr, id) == arr

Without(arr, id) == Filter(arr, UserIds \ {id})

UnfollowFindFirst(s) ==
    /\ reqs[s].pc = "unfollow1"
    /\ reqs' = [reqs EXCEPT ![s].pc = "unfollow2",
                            ![s].a = IF rev = "server" THEN FindUser(reqs[s].actor) ELSE @,
                            ![s].b = IF rev = "server" THEN @ ELSE FindUser(reqs[s].arg)]
    /\ resp' = NoResp
    /\ UNCHANGED <<rev, users, posts, notifications, emitted, nreq, hist>>

\* The second findById, the 404, and the two assignments: assigning an array
\* equal to the loaded one leaves the path unmodified.
UnfollowFindSecond(s) ==
    /\ reqs[s].pc = "unfollow2"
    /\ LET r == reqs[s]
           a == IF rev = "server" THEN r.a ELSE FindUser(r.actor)
           b == IF rev = "server" THEN FindUser(r.arg) ELSE r.b
           following == Without(a.following, r.arg)
           followers == Without(b.followers, r.actor)
       IN  IF ~a.ok \/ ~b.ok THEN Respond(s, 404, <<>>)
           ELSE /\ reqs' = [reqs EXCEPT
                      ![s].pc = "unfollowSaveUser",
                      ![s].a = [a EXCEPT !.following = following],
                      ![s].b = [b EXCEPT !.followers = followers],
                      ![s].dirty = (IF following # a.following THEN {"a"} ELSE {})
                                   \cup (IF followers # b.followers THEN {"b"} ELSE {})]
                /\ resp' = NoResp
    /\ UNCHANGED <<rev, users, posts, notifications, emitted, nreq, hist>>

\* await user.save(): $set of following, guarded by the loaded __v
UnfollowSaveUser(s) ==
    /\ reqs[s].pc = "unfollowSaveUser"
    /\ LET r == reqs[s]
       IN  IF "a" \notin r.dirty THEN Goto(s, "unfollowSaveTarget") /\ UNCHANGED users
           ELSE IF users[r.actor].v # r.a.v THEN Caught(s) /\ UNCHANGED users
           ELSE /\ users' = [users EXCEPT ![r.actor].following = r.a.following,
                                          ![r.actor].v = @ + 1]
                /\ Goto(s, "unfollowSaveTarget")
    /\ UNCHANGED <<rev, posts, notifications, emitted, nreq, hist>>

\* await userToUnfollow.save(), and res.json
UnfollowSaveTarget(s) ==
    /\ reqs[s].pc = "unfollowSaveTarget"
    /\ LET r == reqs[s]
       IN  IF "b" \notin r.dirty THEN Respond(s, 200, <<>>) /\ UNCHANGED users
           ELSE IF users[r.arg].v # r.b.v THEN Caught(s) /\ UNCHANGED users
           ELSE /\ users' = [users EXCEPT ![r.arg].followers = r.b.followers,
                                          ![r.arg].v = @ + 1]
                /\ Respond(s, 200, <<>>)
    /\ UNCHANGED <<rev, posts, notifications, emitted, nreq, hist>>

Unfollow(s) ==
    \/ UnfollowFindFirst(s)
    \/ UnfollowFindSecond(s)
    \/ UnfollowSaveUser(s)
    \/ UnfollowSaveTarget(s)

BeginUnfollow(s) ==
    \E actor \in UserIds, target \in UserIds \cup {Ghost} :
        Begin(s, "unfollow", actor, target, NoBody, "unfollow1")

-----------------------------------------------------------------------------
(* Posts: the pre-save hook, and what a save of a loaded post writes *)

\* this.likes.filter((id) => id != null)
StripNulls(likes) == Filter(likes, UserIds)

\* post.likes.filter((like) => like != null).map((like) => like.toString())
Normalized(likes) == StripNulls(likes)

\* The paths of a loaded post that a save finds modified: those the handler
\* changed, and likes when the hook's assignment changes it (or finds it
\* already modified).
Modified(local, dirty) ==
    dirty \cup (IF StripNulls(local.likes) # local.likes THEN {"likes"} ELSE {})

\* A save as Mongoose would send it were likes not assigned by the hook: the
\* push goes out as $push onto the stored array, with no test of __v.
SaveOutcome_PushOnly(stored, local, dirty) ==
    IF ~stored.ok THEN [ok |-> FALSE, doc |-> stored]
    ELSE [ok |-> TRUE,
          doc |-> [stored EXCEPT
              !.likes = IF "likes" \in dirty /\ local.likes # <<>>
                        THEN Append(@, local.likes[Len(local.likes)]) ELSE @,
              !.comments = IF "comments" \in dirty
                           THEN Append(@, local.comments[Len(local.comments)]) ELSE @,
              !.content = IF "content" \in dirty THEN local.content ELSE @,
              !.visibility = IF "visibility" \in dirty THEN local.visibility ELSE @,
              !.v = IF {"likes", "comments"} \cap dirty # {} THEN @ + 1 ELSE @]]

\* post.save() of a loaded copy with the paths in `dirty` changed by the
\* handler.  PostSchema.pre('save') strips the nulls; likes, when modified,
\* is written whole ($set) under the __v the copy was loaded with, and the
\* save rejects (VersionError) when the stored __v has moved on, or when the
\* post is gone; a pushed comment is appended to the stored comments;
\* assigned content and visibility are set.
SaveOutcome(stored, local, dirty) ==
    LET m == Modified(local, dirty)
    IN  IF ~stored.ok \/ ("likes" \in m /\ stored.v # local.v)
        THEN [ok |-> FALSE, doc |-> stored]
        ELSE [ok |-> TRUE,
              doc |-> [stored EXCEPT
                  !.likes = IF "likes" \in m THEN StripNulls(local.likes) ELSE @,
                  !.comments = IF "comments" \in dirty
                               THEN Append(@, local.comments[Len(local.comments)]) ELSE @,
                  !.content = IF "content" \in dirty THEN local.content ELSE @,
                  !.visibility = IF "visibility" \in dirty THEN local.visibility ELSE @,
                  !.v = IF {"likes", "comments"} \cap m # {} THEN @ + 1 ELSE @]]

\* The loaded copy after its save: the hook has assigned the stripped likes.
AfterSave(local) == [local EXCEPT !.likes = StripNulls(@)]

\* await post.save() of request s
SaveRejected(s) == ~SaveOutcome(posts[reqs[s].arg], reqs[s].p, reqs[s].dirty).ok

SavePost(s) ==
    posts' = [posts EXCEPT ![reqs[s].arg] = SaveOutcome(@, reqs[s].p, reqs[s].dirty).doc]

\* The likes in the body of the answer: server.js answers the normalized
\* likes, part_002 the post as it is.
LikesBody(local) == IF rev = "server" THEN Normalized(local.likes) ELSE local.likes

\* if (post.userId._id.toString() !== user._id.toString()): notify the author
NotifiesAuthor_Always(author, actor) == TRUE

NotifiesAuthor(author, actor) == author # actor

-----------------------------------------------------------------------------
(* POST /api/posts/:postId/like (server.js), /api/posts/:id/like (part_002) *)

\* post.likes.includes(user._id)
AlreadyLiked(likes, actor) == Includes(likes, actor)

\* server.js: await User.findById(req.user.id)
LikeFindUser(s) ==
    /\ reqs[s].pc = "like1"
    /\ reqs' = [reqs EXCEPT ![s].pc = "like2", ![s].a = FindUser(reqs[s].actor)]
    /\ resp' = NoResp
    /\ UNCHANGED <<rev, users, posts, notifications, emitted, nreq, hist>>

\* await Post.findById(postId), the 404, the test and the push
LikeFindPost(s) ==
    /\ reqs[s].pc = "like2"
    /\ LET r == reqs[s]
           post == FindPost(r.arg)
       IN  IF (rev = "server" /\ ~r.a.ok) \/ ~post.ok THEN Respond(s, 404, <<>>)
           ELSE IF AlreadyLiked(post.likes, r.actor) THEN Respond(s, 200, LikesBody(post))
           ELSE /\ reqs' = [reqs EXCEPT ![s].pc = "likeSave",
                                        ![s].p = [post EXCEPT !.likes = Append(@, r.actor)],
                                        ![s].dirty = {"likes"}]
                /\ resp' = NoResp
    /\ UNCHANGED <<rev, users, posts, notifications, emitted, nreq, hist>>

\* await post.save(); the author's own like is answered here
LikeSave(s) ==
    /\ reqs[s].pc = "likeSave"
    /\ LET r == reqs[s]
       IN  IF SaveRejected(s) THEN Caught(s) /\ UNCHANGED posts
           ELSE /\ SavePost(s)
                /\ IF NotifiesAuthor(r.p.author, r.actor)
                   THEN /\ reqs' = [reqs EXCEPT ![s].pc = "likeNotify",
                                                ![s].p = AfterSave(r.p)]
                        /\ resp' = NoResp
                   ELSE Respond(s, 200, LikesBody(AfterSave(r.p)))
    /\ UNCHANGED <<rev, users, notifications, emitted, nreq, hist>>

\* await notification.save(), the emit, and res.json
LikeNotify(s) ==
    /\ reqs[s].pc = "likeNotify"
    /\ LET r == reqs[s]
           n == NewNotification(r.p.author, r.actor, "like", r.arg)
       IN  IF Validates(n)
           THEN SaveAndEmit(n) /\ Respond(s, 200, LikesBody(r.p))
           ELSE Caught(s) /\ UNCHANGED <<notifications, emitted>>
    /\ UNCHANGED <<rev, users, posts, nreq, hist>>

Like(s) ==
    \/ LikeFindUser(s)
    \/ LikeFindPost(s)
    \/ LikeSave(s)
    \/ LikeNotify(s)

BeginLike(s) ==
    \E actor \in UserIds, post \in PostIds :
        Begin(s, "like", actor, post, NoBody, IF rev = "server" THEN "like1" ELSE "like2")

-----------------------------------------------------------------------------
(* POST /api/posts/:postId/unlike (server.js only) *)

UnlikeFindUser(s) ==
    /\ reqs[s].pc = "unlike1"
    /\ reqs' = [reqs EXCEPT ![s].pc = "unlike2", ![s].a = FindUser(reqs[s].actor)]
    /\ resp' = NoResp
    /\ UNCHANGED <<rev, users, posts, notifications, emitted, nreq, hist>>

\* await Post.findById(postId), the 404, and
\* post.likes = post.likes.filter((id) => id.toString() !== user._id.toString()):
\* id.toString() of a null element throws, and the catch block answers 500.
UnlikeFindPost(s) ==
    /\ reqs[s].pc = "unlike2"
    /\ LET r == reqs[s]
           post == FindPost(r.arg)
           likes == Without(post.likes, r.actor)
       IN  IF ~r.a.ok \/ ~post.ok THEN Respond(s, 404, <<>>)
           ELSE IF Null \in Range(post.likes) THEN Caught(s)
           ELSE /\ reqs' = [reqs EXCEPT ![s].pc = "unlikeSave",
                                        ![s].p = [post EXCEPT !.likes = likes],
                                        ![s].dirty = IF likes # post.likes THEN {"likes"} ELSE {}]
                /\ resp' = NoResp
    /\ UNCHANGED <<rev, users, posts, notifications, emitted, nreq, hist>>

\* await post.save() and res.json
UnlikeSave(s) ==
    /\ reqs[s].pc = "unlikeSave"
    /\ LET r == reqs[s]
       IN  IF SaveRejected(s) THEN Caught(s) /\ UNCHANGED posts
           ELSE SavePost(s) /\ Respond(s, 200, Normalized(AfterSave(r.p).likes))
    /\ UNCHANGED <<rev, users, notifications, emitted, nreq, hist>>

Unlike(s) ==
    \/ UnlikeFindUser(s)
    \/ UnlikeFindPost(s)
    \/ UnlikeSave(s)

BeginUnlike(s) ==
    /\ rev = "server"
    /\ \E actor \in UserIds, post \in PostIds :
           Begin(s, "unlike", actor, post, NoBody, "unlike1")

-----------------------------------------------------------------------------
(* POST /api/posts/:postId/comment (server.js), /api/posts/:id/comment (part_002) *)

\* The longest comment server.js accepts.
MaxCommentLen == 100

\* The lengths of the content of the comments requested.
ContentLens == {0, 1, MaxCommentLen, MaxCommentLen + 1}

\* if (!content || content.length > 100): only server.js has it
InvalidComment(len) == rev = "server" /\ (len = 0 \/ len > MaxCommentLen)

\* The comment schema: content is required, and the empty string is not a
\* value of a required string.
CommentValidates(c) == c.content # 0

\* An invalid comment is answered 400 before anything is awaited.
CommentRejected(s) ==
    /\ reqs[s].op = "idle"
    /\ \E actor \in UserIds, post \in PostIds, len \in ContentLens :
          /\ InvalidComment(len)
          /\ resp' = [NoResp EXCEPT !.op = "comment", !.actor = actor, !.arg = post,
                                    !.body = [NoBody EXCEPT !.content = len],
                                    !.status = 400, !.pre = Snapshot]
    /\ UNCHANGED <<rev, users, posts, notifications, emitted, reqs, nreq, hist>>

\* The first findById: server.js loads the acting user, part_002 the post
\* (and answers 404 when there is none).
CommentFindFirst(s) ==
    /\ reqs[s].pc = "comment1"
    /\ IF rev = "server"
       THEN /\ reqs' = [reqs EXCEPT ![s].pc = "comment2", ![s].a = FindUser(reqs[s].actor)]
            /\ resp' = NoResp
       ELSE IF ~FindPost(reqs[s].arg).ok THEN Respond(s, 404, <<>>)
       ELSE /\ reqs' = [reqs EXCEPT ![s].pc = "comment2", ![s].p = FindPost(reqs[s].arg)]
            /\ resp' = NoResp
    /\ UNCHANGED <<rev, users, posts, notifications, emitted, nreq, hist>>

\* The second findById, server.js's 404, and post.comments.push
CommentFindSecond(s) ==
    /\ reqs[s].pc = "comment2"
    /\ LET r == reqs[s]
           a == IF rev = "server" THEN r.a ELSE FindUser(r.actor)
           post == IF rev = "server" THEN FindPost(r.arg) ELSE r.p
           c == [userId |-> r.actor, content |-> r.body.content]
       IN  IF rev = "server" /\ (~a.ok \/ ~post.ok) THEN Respond(s, 404, <<>>)
           ELSE /\ reqs' = [reqs EXCEPT ![s].pc = "commentSave", ![s].a = a,
                                        ![s].p = [post EXCEPT !.comments = Append(@, c)],
                                        ![s].dirty = {"comments"}]
                /\ resp' = NoResp
    /\ UNCHANGED <<rev, users, posts, notifications, emitted, nreq, hist>>

\* await post.save(); the author's own comment is answered here
CommentSave(s) ==
    /\ reqs[s].pc = "commentSave"
    /\ LET r == reqs[s]
       IN  IF ~CommentValidates(r.p.comments[Len(r.p.comments)]) \/ SaveRejected(s)
           THEN Caught(s) /\ UNCHANGED posts
           ELSE /\ SavePost(s)
                /\ IF NotifiesAuthor(r.p.author, r.actor)
                   THEN /\ reqs' = [reqs EXCEPT ![s].pc = "commentNotify",
                                                ![s].p = AfterSave(r.p)]
                        /\ resp' = NoResp
                   ELSE Respond(s, 200, LikesBody(AfterSave(r.p)))
    /\ UNCHANGED <<rev, users, notifications, emitted, nreq, hist>>

\* await notification.save(), the emit, and res.json
CommentNotify(s) ==
    /\ reqs[s].pc = "commentNotify"
    /\ LET r == reqs[s]
           n == NewNotification(r.p.author, r.actor, "comment", r.arg)
       IN  IF Validates(n)
           THEN SaveAndEmit(n) /\ Respond(s, 200, LikesBody(r.p))
           ELSE Caught(s) /\ UNCHANGED <<notifications, emitted>>
    /\ UNCHANGED <<rev, users, posts, nreq, hist>>

Comment(s) ==
    \/ CommentFindFirst(s)
    \/ CommentFindSecond(s)
    \/ CommentSave(s)
    \/ CommentNotify(s)

BeginComment(s) ==
    \E actor \in UserIds, post \in PostIds, len \in ContentLens :
        /\ ~InvalidComment(len)
        /\ Begin(s, "comment", actor, post, [NoBody EXCEPT !.content = len], "comment1")

-----------------------------------------------------------------------------
(* PUT /api/posts/:postId (server.js only) *)

\* The patches requested: content (0: not supplied) and visibility (Null:
\* not supplied).
Patches == [content : {0, 2}, visibility : {Null, "public", "private"}]

\* Any actor taken for the author.
IsAuthor_Anyone(post, actor) == TRUE

\* post.userId._id.toString() === req.user.id
IsAuthor(post, actor) == post.author = actor

\* await Post.findById(postId), the 404, the 403, and the assignments
\* post.content = content || post.content, post.visibility = visibility ||
\* post.visibility: a value equal to the loaded one leaves the path unmodified.
UpdateFindPost(s) ==
    /\ reqs[s].pc = "update1"
    /\ LET r == reqs[s]
           post == FindPost(r.arg)
           content == IF r.body.content # 0 THEN r.body.content ELSE post.content
           visibility == IF r.body.visibility # Null THEN r.body.visibility
                         ELSE post.visibility
       IN  IF ~post.ok THEN Respond(s, 404, <<>>)
           ELSE IF ~IsAuthor(post, r.actor) THEN Respond(s, 403, <<>>)
           ELSE /\ reqs' = [reqs EXCEPT
                      ![s].pc = "updateSave",
                      ![s].p = [post EXCEPT !.content = content, !.visibility = visibility],
                      ![s].dirty = (IF content # post.content THEN {"content"} ELSE {})
                                   \cup (IF visibility # post.visibility
                                         THEN {"visibility"} ELSE {})]
                /\ resp' = NoResp
    /\ UNCHANGED <<rev, users, posts, notifications, emitted, nreq, hist>>

\* await post.save() and res.json({ post: post.toObject() })
UpdateSave(s) ==
    /\ reqs[s].pc = "updateSave"
    /\ LET r == reqs[s]
       IN  IF SaveRejected(s) THEN Caught(s) /\ UNCHANGED posts
           ELSE SavePost(s) /\ Respond(s, 200, AfterSave(r.p).likes)
    /\ UNCHANGED <<rev, users, notifications, emitted, nreq, hist>>

Update(s) ==
    \/ UpdateFindPost(s)
    \/ UpdateSave(s)

BeginUpdate(s) ==
    /\ rev = "server"
    /\ \E actor \in UserIds, post \in PostIds, patch \in Patches :
           Begin(s, "update", actor, post, patch, "update1")

-----------------------------------------------------------------------------
(* The reads: GET /api/feed (server.js), GET /api/posts (part_002), and
   GET /api/users/:username.  A read changes nothing in the store and is
   taken in one step. *)

\* The cap of server.js's feed.
FeedLimit == 20

RECURSIVE SortDesc(_)
\* .sort({ createdAt: -1 }) of a set of posts: newest first
SortDesc(S) ==
    IF S = {} THEN <<>>
    ELSE LET newest == CHOOSE x \in S : \A y \in S : posts[y].createdAt <= posts[x].createdAt
         IN  <<newest>> \o SortDesc(S \ {newest})

\* .limit(n)
Limit(seq, n) == IF Len(seq) <= n THEN seq ELSE SubSeq(seq, 1, n)

\* The filter of the feed: { $or: [{ userId: { $in: following and self },
\* visibility: 'public' }, { userId: self }] }
InFeed(user, id) ==
    /\ posts[id].ok
    /\ \/ /\ posts[id].author \in Range(users[user].following) \cup {user}
          /\ posts[id].visibility = "public"
       \/ posts[id].author = user

GetFeed(s) ==
    /\ reqs[s].op = "idle"
    /\ \E user \in UserIds :
          LET found == SortDesc({id \in DOMAIN posts : InFeed(user, id)})
          IN  resp' = [NoResp EXCEPT
                  !.op = "feed", !.actor = user, !.status = 200, !.pre = Snapshot,
                  !.out = IF rev = "server" THEN Limit(found, FeedLimit) ELSE found]
    /\ UNCHANGED <<rev, users, posts, notifications, emitted, reqs, nreq, hist>>

\* GET /api/users/:username: currentUser.following.includes(user._id)
IsFollowing(current, target) == Includes(users[current].following, target)

\* Post.find({ userId: user._id }): the posts of the profile
InProfile(owner, id) == posts[id].ok /\ posts[id].author = owner

GetUserProfile(s) ==
    /\ reqs[s].op = "idle"
    /\ \E user \in UserIds, handle \in UserIds \cup {Ghost} :
          resp' = IF ~FindUser(handle).ok
                  THEN [NoResp EXCEPT !.op = "profile", !.actor = user, !.arg = handle,
                                      !.status = 404, !.pre = Snapshot]
                  ELSE [NoResp EXCEPT
                           !.op = "profile", !.actor = user, !.arg = handle,
                           !.status = 200, !.pre = Snapshot,
                           !.out = SortDesc({id \in DOMAIN posts : InProfile(handle, id)}),
                           !.flag = IsFollowing(user, handle)]
    /\ UNCHANGED <<rev, users, posts, notifications, emitted, reqs, nreq, hist>>

-----------------------------------------------------------------------------
(* Initial states and specifications *)

\* The store after the users have registered: nobody follows anybody, there
\* is no post and no notification.  The revision deployed is fixed.
InitGraph ==
    /\ rev \in Revisions
    /\ users = [u \in UserIds |-> NewUser]
    /\ posts = [p \in PostIds |-> NoPost]
    /\ notifications = <<>>
    /\ emitted = <<>>
    /\ reqs = [s \in Slots |-> Idle]
    /\ resp = NoResp
    /\ nreq = 0
    /\ hist = {}
    /\ LiveIdle

\* Follow and unfollow requests served one after the other; any awaited
\* store operation may reject.
NextGraph ==
    \/ BeginFollow(1) /\ LiveUnchanged
    \/ BeginUnfollow(1) /\ LiveUnchanged
    \/ Follow(1) /\ LiveUnchanged
    \/ Unfollow(1) /\ LiveUnchanged
    \/ Fail(1) /\ LiveUnchanged

SpecGraph == InitGraph /\ [][NextGraph]_vars

\* Follow and unfollow requests in flight together; no store operation
\* rejects.
NextGraphConc ==
    \E s \in Slots :
        \/ nreq < MaxConcReqs /\ BeginFollow(s) /\ LiveUnchanged
        \/ nreq < MaxConcReqs /\ BeginUnfollow(s) /\ LiveUnchanged
        \/ Follow(s) /\ LiveUnchanged
        \/ Unfollow(s) /\ LiveUnchanged

SpecGraphConc == InitGraph /\ [][NextGraphConc]_vars

\* A stored post of an author, as POST /api/posts creates it.
NewPost(author, visibility, at) ==
    [ok |-> TRUE, author |-> author, visibility |-> visibility, content |-> 1,
     likes |-> <<>>, comments |-> <<>>, createdAt |-> at, v |-> 0]

\* The posts created before the requests modelled: p1 by u1, and p2, when
\* there is a p2, by u2 and newer.
PostsAtStart ==
    {[p \in PostIds |-> IF p = "p1" THEN NewPost("u1", v1, 1) ELSE second] :
        v1 \in {"public", "private"},
        second \in {NoPost} \cup {NewPost("u2", v2, 2) : v2 \in {"public", "private"}}}

\* Likes as older writers left them in the database: with null entries, and
\* with a user more than once.  The filters of server.js (389-394, 527-529)
\* and the pre-save hook exist for such documents.
LegacyLikes == {<<Null, "u2">>, <<"u2", "u2">>, <<"u1", Null, "u1">>}

LegacyPostsAtStart ==
    {[p \in PostIds |-> IF p = "p1"
                        THEN [NewPost("u1", "public", 1) EXCEPT !.likes = l, !.v = Len(l)]
                        ELSE NoPost] : l \in LegacyLikes}

InitPosts ==
    /\ rev \in Revisions
    /\ users = [u \in UserIds |-> NewUser]
    /\ posts \in PostsAtStart
    /\ notifications = <<>>
    /\ emitted = <<>>
    /\ reqs = [s \in Slots |-> Idle]
    /\ resp = NoResp
    /\ nreq = 0
    /\ hist = {}
    /\ LiveIdle

InitLegacy ==
    /\ rev \in Revisions
    /\ users = [u \in UserIds |-> NewUser]
    /\ posts \in LegacyPostsAtStart
    /\ notifications = <<>>
    /\ emitted = <<>>
    /\ reqs = [s \in Slots |-> Idle]
    /\ resp = NoResp
    /\ nreq = 0
    /\ hist = {}
    /\ LiveIdle

\* Like requests in flight together; no store operation rejects of itself.
NextLikeConc ==
    \E s \in Slots :
        \/ nreq < MaxConcReqs /\ BeginLike(s) /\ LiveUnchanged
        \/ Like(s) /\ LiveUnchanged

SpecLikeConc == InitPosts /\ [][NextLikeConc]_vars

\* The requests that notify, served one after the other; any awaited store
\* operation may reject.
NextPost ==
    \/ nreq < MaxPostReqs /\ BeginFollow(1) /\ LiveUnchanged
    \/ Follow(1) /\ LiveUnchanged
    \/ nreq < MaxPostReqs /\ BeginLike(1) /\ LiveUnchanged
    \/ Like(1) /\ LiveUnchanged
    \/ CommentRejected(1) /\ LiveUnchanged
    \/ nreq < MaxPostReqs /\ BeginComment(1) /\ LiveUnchanged
    \/ Comment(1) /\ LiveUnchanged
    \/ Fail(1) /\ LiveUnchanged

SpecPost == InitPosts /\ [][NextPost]_vars

\* Like and unlike requests served one after the other; any awaited store
\* operation may reject.
NextLike ==
    \/ BeginLike(1) /\ LiveUnchanged
    \/ Like(1) /\ LiveUnchanged
    \/ BeginUnlike(1) /\ LiveUnchanged
    \/ Unlike(1) /\ LiveUnchanged
    \/ Fail(1) /\ LiveUnchanged

SpecLike == InitPosts /\ [][NextLike]_vars

\* The requests that save a post, served one after the other on a post with
\* legacy likes.
NextPostLegacy ==
    \/ BeginLike(1) /\ LiveUnchanged
    \/ Like(1) /\ LiveUnchanged
    \/ BeginUnlike(1) /\ LiveUnchanged
    \/ Unlike(1) /\ LiveUnchanged
    \/ CommentRejected(1) /\ LiveUnchanged
    \/ BeginComment(1) /\ LiveUnchanged
    \/ Comment(1) /\ LiveUnchanged
    \/ BeginUpdate(1) /\ LiveUnchanged
    \/ Update(1) /\ LiveUnchanged

SpecPostLegacy == InitLegacy /\ [][NextPostLegacy]_vars

\* The reads, among follows, unfollows and updates served one after the
\* other.
NextRead ==
    \/ GetFeed(1) /\ LiveUnchanged
    \/ GetUserProfile(1) /\ LiveUnchanged
    \/ BeginFollow(1) /\ LiveUnchanged
    \/ Follow(1) /\ LiveUnchanged
    \/ BeginUnfollow(1) /\ LiveUnchanged
    \/ Unfollow(1) /\ LiveUnchanged
    \/ BeginUpdate(1) /\ LiveUnchanged
    \/ Update(1) /\ LiveUnchanged

SpecRead == InitPosts /\ [][NextRead]_vars

-----------------------------------------------------------------------------
(* The follow graph: what the claims are stated in *)

\* The edge from a to b, held on both records / on neither, in a state st
\* of the store.
EdgeIn(st, a, b) ==
    Includes(st.users[a].following, b) /\ Includes(st.users[b].followers, a)

NoEdgeIn(st, a, b) ==
    ~Includes(st.users[a].following, b) /\ ~Includes(st.users[b].followers, a)

\* The request just answered left notifications and live events as they
\* were when it arrived.
NothingNotified ==
    Len(notifications) = resp.pre.n /\ Len(emitted) = resp.pre.e

\* C1: once a follow(A,B) of distinct existing users has been answered with
\* success, B is in A.following, A is in B.followers, and the profile read
\* reports isFollowing(A,B).
C1_FollowEstablishesEdge ==
    (resp.op = "follow" /\ resp.status = 200 /\ resp.actor # resp.arg)
        => /\ Includes(users[resp.actor].following, resp.arg)
           /\ Includes(users[resp.arg].followers, resp.actor)
           /\ IsFollowing(resp.actor, resp.arg)

\* C2: whenever no request is in flight, B is in A.following exactly when A
\* is in B.followers, for all users A and B (stated for distinct A and B: a
\* user's edge to themselves is the matter of C5).
C2_SymmetricWhenQuiescent ==
    Quiescent =>
        \A a \in UserIds : \A b \in UserIds \ {a} :
            Includes(users[a].following, b) <=> Includes(users[b].followers, a)

\* The edge from a to b held once on each record.
EdgeOnceIn(st, a, b) ==
    Count(b, st.users[a].following) = 1 /\ Count(a, st.users[b].followers) = 1

\* C3: a follow(A,B) arriving when A already follows B (A and B distinct, B
\* once in A.following and A once in B.followers) is answered with success
\* (unless the store rejected a read), leaves every user record as it was,
\* with B once in A.following and A once in B.followers, and neither persists
\* nor emits a notification.
C3_FollowIdempotent ==
    (/\ resp.op = "follow" /\ resp.arg \in UserIds \ {resp.actor}
     /\ EdgeOnceIn(resp.pre, resp.actor, resp.arg))
        => /\ resp.status = 200 \/ resp.fault
           /\ users = resp.pre.users
           /\ Count(resp.arg, users[resp.actor].following) = 1
           /\ Count(resp.actor, users[resp.arg].followers) = 1
           /\ NothingNotified

C3_Witness ==
    /\ resp.op = "follow" /\ resp.status = 200 /\ rev = "server"
    /\ resp.actor # resp.arg
    /\ EdgeOnceIn(resp.pre, resp.actor, resp.arg)
    /\ Len(notifications) = 1

\* C4: after an unfollow(A,B) answered with success B is not in A.following
\* and A is not in B.followers; an unfollow(A,B) arriving when neither record
\* holds the edge is not answered with an error of its own and leaves every
\* user record as it was; no unfollow persists or emits a notification.
C4_Unfollow ==
    resp.op = "unfollow" =>
        /\ resp.status = 200 =>
              /\ ~Includes(users[resp.actor].following, resp.arg)
              /\ ~Includes(users[resp.arg].followers, resp.actor)
        /\ (resp.arg \in UserIds /\ NoEdgeIn(resp.pre, resp.actor, resp.arg)) =>
              /\ resp.status = 200 \/ resp.fault
              /\ users = resp.pre.users
        /\ NothingNotified

C4_Witness ==
    /\ resp.op = "unfollow" /\ resp.status = 200 /\ resp.actor # resp.arg
    /\ EdgeIn(resp.pre, resp.actor, resp.arg)
    /\ NoEdgeIn(Snapshot, resp.actor, resp.arg)

\* C5: a follow(A,A) is answered 400 (unless the store rejected a read),
\* changes no user record and creates no notification, under either
\* revision; no user is ever in their own following or followers.
C5_SelfFollowRejected ==
    /\ (resp.op = "follow" /\ resp.actor = resp.arg)
          => /\ resp.status = 400 \/ resp.fault
             /\ users = resp.pre.users
             /\ NothingNotified
    /\ \A u \in UserIds :
          ~Includes(users[u].following, u) /\ ~Includes(users[u].followers, u)

-----------------------------------------------------------------------------
(* Likes, notifications and reads: what the claims are stated in *)

\* No null entry, and no user more than once.
NoNullNoDuplicate(likes) ==
    \A i \in 1..Len(likes) :
        likes[i] # Null /\ \A j \in 1..Len(likes) : likes[i] = likes[j] => i = j

\* The post of the request just answered, as it was when the request arrived.
PostBefore == resp.pre.posts[resp.arg]

\* The like requests received for post p.
LikesReceived(p) == {h \in hist : h[1] = "like" /\ h[3] = p}

\* C6: for every post P and user U, no interleaving of like requests ever
\* leaves U more than once in P.likes, and once like(U,P) requests from the
\* same U, the only likes of P received, have all completed, U is in P.likes
\* exactly once.
C6_LikedExactlyOnce ==
    \A p \in PostIds : \A u \in UserIds :
        /\ Count(u, posts[p].likes) <= 1
        /\ (Quiescent /\ posts[p].ok /\ LikesReceived(p) = {<<"like", u, p>>})
              => Count(u, posts[p].likes) = 1

\* Two like(u2,p1) requests were in flight together: the save of the second
\* was rejected for the first's.
C6_Witness ==
    /\ Quiescent /\ rev = "server" /\ nreq = 2
    /\ LikesReceived("p1") = {<<"like", "u2", "p1">>}
    /\ hist = LikesReceived("p1")
    /\ resp.op = "like" /\ resp.status = 500
    /\ Count("u2", posts["p1"].likes) = 1

\* C7: after a like, unlike, comment or update answered with success, the
\* persisted likes of the post and the likes in the answer hold no null entry
\* and no user more than once, whatever the stored likes held before.
C7_LikesRenormalized ==
    (resp.op \in {"like", "unlike", "comment", "update"} /\ resp.status = 200)
        => /\ NoNullNoDuplicate(posts[resp.arg].likes)
           /\ NoNullNoDuplicate(resp.out)

\* C8: no persisted notification has its triggering user as its target, no
\* live event is emitted to the room of the user who triggered it, and a like
\* or comment by the author of the post neither persists nor emits anything.
C8_NoSelfNotification ==
    /\ \A i \in 1..Len(notifications) :
          notifications[i].userId # notifications[i].fromUserId
    /\ \A i \in 1..Len(emitted) : emitted[i].room # emitted[i].from
    /\ (resp.op \in {"like", "comment"} /\ PostBefore.ok /\ PostBefore.author = resp.actor)
          => NothingNotified

\* The author's own like was saved and answered, after another user's like
\* had notified the author.
C8_Witness ==
    /\ resp.op = "like" /\ resp.status = 200 /\ rev = "server"
    /\ PostBefore.author = resp.actor
    /\ ~Includes(PostBefore.likes, resp.actor)
    /\ Includes(posts[resp.arg].likes, resp.actor)
    /\ Len(notifications) > 0

\* C9: a like(U,P) that the store did not fail, by a user U who is not the
\* author of P and was not in P.likes, persists exactly one notification: of
\* type like, for the author, from U, of P; a like by a user already in
\* P.likes persists none; an unlike persists none and, answered with success,
\* leaves U out of P.likes.
C9_LikeNotifiesOnce ==
    /\ (resp.op = "like" /\ ~resp.fault /\ PostBefore.ok /\ PostBefore.author # resp.actor)
          => IF Includes(PostBefore.likes, resp.actor)
             THEN Len(notifications) = resp.pre.n
             ELSE /\ Len(notifications) = resp.pre.n + 1
                  /\ notifications[Len(notifications)] =
                        NewNotification(PostBefore.author, resp.actor, "like", resp.arg)
    /\ resp.op = "unlike"
          => /\ Len(notifications) = resp.pre.n
             /\ resp.status = 200 => ~Includes(posts[resp.arg].likes, resp.actor)

\* C10: no feed and no profile answered to a user holds a private post of
\* another user, whoever follows whom.
C10_PrivateConfidential ==
    (resp.op \in {"feed", "profile"} /\ resp.status = 200)
        => \A i \in 1..Len(resp.out) :
              posts[resp.out[i]].visibility = "private"
                  => posts[resp.out[i]].author = resp.actor

-----------------------------------------------------------------------------
(* POST /api/posts, and the feed of a store with many posts *)

\* The posts of the store whose feed is read: one more than the cap of the
\* feed, and one to create.
MaxPosts == FeedLimit + 2

FeedPostIds == 1..MaxPosts

\* The paths the Post schema requires, that new Post({...}) of the revision
\* leaves out: part_002 supplies no username to a model that requires it.
MissingPostPaths == IF rev = "server" THEN {} ELSE {"username"}

\* The _id of the post a create inserts: the first one not in use.
NextPostId == CHOOSE id \in FeedPostIds :
                  ~posts[id].ok /\ \A other \in FeedPostIds : ~posts[other].ok => id <= other

\* What the creates requested carry: content (0: none) and visibility (Null:
\* none).
NewPostBodies == [content : {0, 1}, visibility : {Null, "public", "private"}]

\* if (!content) return res.status(400): only server.js has it
CreateRejected(s) ==
    /\ reqs[s].op = "idle"
    /\ rev = "server"
    /\ \E actor \in UserIds, body \in NewPostBodies :
          /\ body.content = 0
          /\ resp' = [NoResp EXCEPT !.op = "create", !.actor = actor, !.body = body,
                                    !.status = 400, !.pre = Snapshot]
    /\ UNCHANGED <<rev, users, posts, notifications, emitted, reqs, nreq, hist>>

\* server.js: await User.findById(req.user.id) and the 404
CreateFindUser(s) ==
    /\ reqs[s].pc = "create1"
    /\ IF ~FindUser(reqs[s].actor).ok THEN Respond(s, 404, <<>>)
       ELSE /\ reqs' = [reqs EXCEPT ![s].pc = "createSave", ![s].a = FindUser(reqs[s].actor)]
            /\ resp' = NoResp
    /\ UNCHANGED <<rev, users, posts, notifications, emitted, nreq, hist>>

\* new Post({...}), await post.save(), the read back and the answer
CreateSave(s) ==
    /\ reqs[s].pc = "createSave"
    /\ LET r == reqs[s]
           visibility == IF r.body.visibility # Null THEN r.body.visibility ELSE "public"
       IN  IF MissingPostPaths # {} \/ r.body.content = 0
              \/ \A id \in FeedPostIds : posts[id].ok
           THEN Caught(s) /\ UNCHANGED posts
           ELSE /\ posts' = [posts EXCEPT ![NextPostId] =
                                 NewPost(r.actor, visibility, NextPostId)]
                /\ Respond(s, 200, <<NextPostId>>)
    /\ UNCHANGED <<rev, users, notifications, emitted, nreq, hist>>

CreatePost(s) ==
    \/ CreateFindUser(s)
    \/ CreateSave(s)

BeginCreate(s) ==
    \E actor \in UserIds, body \in NewPostBodies :
        /\ rev = "server" => body.content # 0
        /\ Begin(s, "create", actor, "posts", body,
                 IF rev = "server" THEN "create1" ELSE "createSave")

\* Who wrote the posts the store starts with, and for whom: all of one kind,
\* or of the four kinds in rotation.
Kinds == <<[author |-> "u1", visibility |-> "public"],
           [author |-> "u2", visibility |-> "public"],
           [author |-> "u1", visibility |-> "private"],
           [author |-> "u2", visibility |-> "private"]>>

Rotations == {<<1>>, <<2>>, <<4>>, <<1, 2, 3, 4>>}

\* The store after n posts were created, of the kinds of rotation rot.
PostsCreated(n, rot) ==
    [id \in FeedPostIds |->
        IF id <= n
        THEN NewPost(Kinds[rot[(id % Len(rot)) + 1]].author,
                     Kinds[rot[(id % Len(rot)) + 1]].visibility, id)
        ELSE NoPost]

\* How many posts the store starts with: none, or as many as the feed's cap
\* less one, or one more than the cap.
StartCounts == {0, FeedLimit - 1, FeedLimit + 1}

InitFeed ==
    /\ rev \in Revisions
    /\ users = [u \in UserIds |-> NewUser]
    /\ posts \in {PostsCreated(n, rot) : n \in StartCounts, rot \in Rotations}
    /\ notifications = <<>>
    /\ emitted = <<>>
    /\ reqs = [s \in Slots |-> Idle]
    /\ resp = NoResp
    /\ nreq = 0
    /\ hist = {}
    /\ LiveIdle

\* The feed read among creates and follows served one after the other.
NextFeed ==
    \/ GetFeed(1) /\ LiveUnchanged
    \/ CreateRejected(1) /\ LiveUnchanged
    \/ BeginCreate(1) /\ LiveUnchanged
    \/ CreatePost(1) /\ LiveUnchanged
    \/ BeginFollow(1) /\ LiveUnchanged
    \/ Follow(1) /\ LiveUnchanged

SpecFeed == InitFeed /\ [][NextFeed]_vars

Min(a, b) == IF a <= b THEN a ELSE b

\* The posts user may see in a feed: their own, and the public ones of the
\* users they follow.
FeedOf(user) ==
    {id \in DOMAIN posts :
        /\ posts[id].ok
        /\ \/ posts[id].author = user
           \/ /\ posts[id].visibility = "public"
              /\ Includes(users[user].following, posts[id].author)}

\* C11: a feed answered to U holds, each once and newest first, the newest
\* posts among those that are U's own or public and of a user U follows, as
\* many of them as there are up to the cap, and no other post.
C11_FeedExact ==
    (resp.op = "feed" /\ resp.status = 200)
        => /\ Range(resp.out) \subseteq FeedOf(resp.actor)
           /\ Len(resp.out) = Min(Cardinality(FeedOf(resp.actor)), FeedLimit)
           /\ \A i \in 1..Len(resp.out) : \A j \in 1..Len(resp.out) :
                 i < j => posts[resp.out[i]].createdAt > posts[resp.out[j]].createdAt
           /\ \A x \in FeedOf(resp.actor) \ Range(resp.out) : \A i \in 1..Len(resp.out) :
                 posts[x].createdAt < posts[resp.out[i]].createdAt

-----------------------------------------------------------------------------
(* A follow retried by its client until it is answered with success *)

\* The client sends one follow, of any user to any other.
FirstFollow(s) ==
    /\ nreq = 0
    /\ \E actor \in UserIds : \E target \in UserIds \ {actor} :
           Begin(s, "follow", actor, target, NoBody, "follow1")

\* The follow just answered with an error is sent again.
RetryFollow(s) ==
    /\ resp.op = "follow" /\ resp.status = 500
    /\ Begin(s, "follow", resp.actor, resp.arg, NoBody, "follow1")

\* The store rejects an awaited operation, though not of the last request
\* the client is let send: the store fails finitely often.
FailSometimes(s) == nreq < MaxReqs /\ Fail(s)

NextRetry ==
    \/ FirstFollow(1) /\ LiveUnchanged
    \/ RetryFollow(1) /\ LiveUnchanged
    \/ Follow(1) /\ LiveUnchanged
    \/ FailSometimes(1) /\ LiveUnchanged

\* A handler runs on after each await and the client retries after each
\* error: a step that stays possible is taken.
SpecRetry == InitGraph /\ [][NextRetry]_vars /\ WF_vars(NextRetry)

\* follow(a,b) was just answered with an error, a's record saved and b's not.
PartialFollow(a, b) ==
    /\ resp.op = "follow" /\ resp.actor = a /\ resp.arg = b /\ resp.status = 500
    /\ Includes(users[a].following, b)
    /\ ~Includes(users[b].followers, a)

\* The edge is on both records and b was sent the follow of a.
Converged(a, b) ==
    /\ Includes(users[a].following, b)
    /\ Includes(users[b].followers, a)
    /\ \E i \in 1..Len(emitted) :
          emitted[i].room = b /\ emitted[i].from = a /\ emitted[i].type = "follow"

\* C12: whenever a follow(A,B) has failed with A's record saved and B's not,
\* retrying it until it is answered with success leads to a state where A is
\* in B.followers and the follow notification has been emitted.
C12_RetryConverges ==
    \A a \in UserIds : \A b \in UserIds \ {a} :
        PartialFollow(a, b) ~> Converged(a, b)

-----------------------------------------------------------------------------
(* Fan-out: the notification of an engagement *)

\* The request just answered has persisted its engagement: the like is in
\* the post's likes, the comment in its comments, the edge on both records,
\* and was not before.
EngagementPersisted ==
    \/ /\ resp.op = "like" /\ PostBefore.ok
       /\ ~Includes(PostBefore.likes, resp.actor)
       /\ Includes(posts[resp.arg].likes, resp.actor)
    \/ /\ resp.op = "comment" /\ PostBefore.ok
       /\ Len(posts[resp.arg].comments) = Len(PostBefore.comments) + 1
    \/ /\ resp.op = "follow" /\ resp.arg \in UserIds \ {resp.actor}
       /\ NoEdgeIn(resp.pre, resp.actor, resp.arg)
       /\ EdgeIn(Snapshot, resp.actor, resp.arg)

\* C13: a follow, like or comment that has persisted its engagement is
\* answered with success, whether or not persisting the notification or
\* emitting it fails.
C13_FanOutNeverFails ==
    EngagementPersisted => resp.status = 200

-----------------------------------------------------------------------------
(* io.on('connection'), socket.on('join'), socket.on('disconnect') *)

MAX_CONNECTIONS == 100

\* let currentConnections and its test: only server.js has them
CountsConnections == rev = "server"

\* The accepted sockets connected before the ones followed: none, or so many
\* that the cap is one or two connections away.
OthersAtStart == {0, MAX_CONNECTIONS - 2, MAX_CONNECTIONS - 1}

\* A request handler is neither entered nor left by an event of a socket.
RequestsUnchanged ==
    UNCHANGED <<rev, users, posts, notifications, emitted, reqs, resp, nreq, hist>>

\* io.on('connection'): a client of user u opens socket k.  At the cap the
\* socket is disconnected and no listener is registered on it.
Connection(k) ==
    /\ sockets[k].state = "none"
    /\ \E u \in UserIds :
          IF CountsConnections /\ currentConnections >= MAX_CONNECTIONS
          THEN /\ sockets' = [sockets EXCEPT ![k] = [state |-> "rejected", user |-> u,
                                                     rooms |-> {}]]
               /\ UNCHANGED currentConnections
          ELSE /\ sockets' = [sockets EXCEPT ![k] = [state |-> "connected", user |-> u,
                                                     rooms |-> {}]]
               /\ currentConnections' = IF CountsConnections THEN currentConnections + 1
                                        ELSE currentConnections
    /\ UNCHANGED others
    /\ RequestsUnchanged

\* socket.on('join', (userId) => socket.join(userId)): the room is the one
\* the client names.
Join(k) ==
    /\ sockets[k].state = "connected"
    /\ \E userId \in UserIds : sockets' = [sockets EXCEPT ![k].rooms = @ \cup {userId}]
    /\ UNCHANGED <<currentConnections, others>>
    /\ RequestsUnchanged

\* socket.on('disconnect'): the socket leaves its rooms
Disconnect(k) ==
    /\ sockets[k].state = "connected"
    /\ sockets' = [sockets EXCEPT ![k].state = "closed", ![k].rooms = {}]
    /\ currentConnections' = IF CountsConnections THEN currentConnections - 1
                             ELSE currentConnections
    /\ UNCHANGED others
    /\ RequestsUnchanged

\* The server some time after it started: users have registered and clients
\* have connected.
InitLive ==
    /\ rev \in Revisions
    /\ users = [u \in UserIds |-> NewUser]
    /\ posts = [p \in PostIds |-> NoPost]
    /\ notifications = <<>>
    /\ emitted = <<>>
    /\ reqs = [s \in Slots |-> Idle]
    /\ resp = NoResp
    /\ nreq = 0
    /\ hist = {}
    /\ others \in OthersAtStart
    /\ currentConnections = IF CountsConnections THEN others ELSE 0
    /\ sockets = [k \in SocketIds |-> NoSocket]

NextLive ==
    \E k \in SocketIds :
        \/ Connection(k)
        \/ Join(k)
        \/ Disconnect(k)

SpecLive == InitLive /\ [][NextLive]_vars

\* The accepted sockets now connected, of those followed.
Connected == {k \in SocketIds : sockets[k].state = "connected"}

\* C18: the accepted sessions now connected are never more than the cap; the
\* connection counter, where the revision keeps one, equals their number and
\* is never negative; a socket turned away at the cap is in no room.
C18_ConnectionCap ==
    /\ others + Cardinality(Connected) <= MAX_CONNECTIONS
    /\ CountsConnections =>
          /\ currentConnections = others + Cardinality(Connected)
          /\ currentConnections >= 0
          /\ currentConnections <= MAX_CONNECTIONS
    /\ \A k \in SocketIds :
          sockets[k].state = "rejected" =>
              sockets[k].rooms = {} /\ \A room \in UserIds : k \notin Joined(room)

-----------------------------------------------------------------------------
(* GET /api/notifications *)

\* The cap of server.js's list of notifications.
NotificationLimit == 50

RECURSIVE NewestFirst(_)
\* Notification.find({ userId }).sort({ createdAt: -1 }): the positions in
\* the collection of the notifications of a set, the last inserted first.
NewestFirst(S) ==
    IF S = {} THEN <<>>
    ELSE LET newest == CHOOSE x \in S : \A y \in S : y <= x
         IN  <<newest>> \o NewestFirst(S \ {newest})

\* The read is answered in one step; .limit(50) is only in server.js.
ListForUser(s) ==
    /\ reqs[s].op = "idle"
    /\ \E user \in UserIds :
          LET found == NewestFirst({i \in 1..Len(notifications) :
                                       notifications[i].userId = user})
          IN  resp' = [NoResp EXCEPT
                  !.op = "list", !.actor = user, !.status = 200, !.pre = Snapshot,
                  !.out = IF rev = "server" THEN Limit(found, NotificationLimit)
                          ELSE found]
    /\ UNCHANGED <<rev, users, posts, notifications, emitted, reqs, nreq, hist>>

\* For whom the notifications the store starts with are: all for u1, or for
\* u1 and u2 in turn.
Targets == {<<"u1">>, <<"u1", "u2">>}

\* The collection after n follows were notified by server.js.
NotificationsStored(n, rot) ==
    [i \in 1..n |->
        LET target == rot[(i % Len(rot)) + 1]
        IN  NewNotification(target, CHOOSE u \in UserIds : u # target, "follow", Null)]

\* How many notifications the store starts with: none, or as many as the
\* list's cap less one, or one more than the cap.
StoredAtStart == {0, NotificationLimit - 1, NotificationLimit + 1}

InitNotifications ==
    /\ rev \in Revisions
    /\ users = [u \in UserIds |-> NewUser]
    /\ posts = [p \in PostIds |-> NoPost]
    /\ notifications \in {NotificationsStored(n, rot) : n \in StoredAtStart, rot \in Targets}
    /\ emitted = <<>>
    /\ reqs = [s \in Slots |-> Idle]
    /\ resp = NoResp
    /\ nreq = 0
    /\ hist = {}
    /\ LiveIdle

\* The list read among follows and unfollows served one after the other.
NextNotifications ==
    \/ ListForUser(1) /\ LiveUnchanged
    \/ BeginFollow(1) /\ LiveUnchanged
    \/ Follow(1) /\ LiveUnchanged
    \/ BeginUnfollow(1) /\ LiveUnchanged
    \/ Unfollow(1) /\ LiveUnchanged

SpecNotifications == InitNotifications /\ [][NextNotifications]_vars

\* C17: a list answered to U holds notifications for U only, newest first,
\* and never more than 50 of them, under either revision.
C17_ListBounded ==
    (resp.op = "list" /\ resp.status = 200)
        => /\ \A i \in 1..Len(resp.out) : notifications[resp.out[i]].userId = resp.actor
           /\ \A i \in 1..Len(resp.out) : \A j \in 1..Len(resp.out) :
                 i < j => resp.out[i] > resp.out[j]
           /\ Len(resp.out) <= NotificationLimit

-----------------------------------------------------------------------------
(* The notification of an engagement, with and without a session of its
   target *)

\* The requests served in a behaviour with sockets.
MaxNotifyReqs == 2

\* One post of u1; no socket has connected.
InitNotify ==
    /\ rev \in Revisions
    /\ users = [u \in UserIds |-> NewUser]
    /\ posts = [p \in PostIds |-> IF p = "p1" THEN NewPost("u1", "public", 1) ELSE NoPost]
    /\ notifications = <<>>
    /\ emitted = <<>>
    /\ reqs = [s \in Slots |-> Idle]
    /\ resp = NoResp
    /\ nreq = 0
    /\ hist = {}
    /\ LiveIdle

\* Follows, likes and comments served one after the other, any awaited store
\* operation may reject; the list of notifications; a socket that connects,
\* joins and disconnects in between.
NextNotify ==
    \/ nreq < MaxNotifyReqs /\ BeginFollow(1) /\ LiveUnchanged
    \/ Follow(1) /\ LiveUnchanged
    \/ nreq < MaxNotifyReqs /\ BeginLike(1) /\ LiveUnchanged
    \/ Like(1) /\ LiveUnchanged
    \/ nreq < MaxNotifyReqs /\ BeginComment(1) /\ LiveUnchanged
    \/ Comment(1) /\ LiveUnchanged
    \/ Fail(1) /\ LiveUnchanged
    \/ ListForUser(1) /\ LiveUnchanged
    \/ Connection("s1")
    \/ Join("s1")
    \/ Disconnect("s1")

SpecNotify == InitNotify /\ [][NextNotify]_vars

\* The notifications for user that are among the newest NotificationLimit
\* for that user.
Listable(user) ==
    {i \in 1..Len(notifications) :
        /\ notifications[i].userId = user
        /\ Cardinality({j \in (i + 1)..Len(notifications) :
                           notifications[j].userId = user}) < NotificationLimit}

\* Every event emitted is that of a stored notification.
EmittedArePersisted ==
    /\ Len(emitted) <= Len(notifications)
    /\ \A i \in 1..Len(emitted) :
          \E j \in 1..Len(notifications) :
              EventOf(notifications[j]) = [f \in DOMAIN EventOf(notifications[j]) |->
                                              emitted[i][f]]

\* A step that emits has stored the notification of the event by then, and
\* no step removes a stored notification.
PersistedBeforeEmitted ==
    /\ emitted' # emitted =>
          /\ Len(notifications') = Len(notifications) + 1
          /\ emitted' = Append(emitted,
                 EventOf(notifications'[Len(notifications')])
                     @@ [to |-> emitted'[Len(emitted')].to])
    /\ Len(notifications') >= Len(notifications)
    /\ \A i \in 1..Len(notifications) : notifications'[i] = notifications[i]

\* A list answered to U holds every notification stored for U, up to the cap
\* of the list.
ListedWhenStored ==
    (resp.op = "list" /\ resp.status = 200) => Listable(resp.actor) \subseteq Range(resp.out)

\* C14: in every follow, like and comment the notification is stored before
\* its event is emitted: every event emitted is that of a stored
\* notification, no stored notification is ever removed, and a later list of
\* the target holds it (within the cap of the list), whether or not a socket
\* of the target was in the room.
C14_DurabilityBeforeDelivery ==
    /\ [](EmittedArePersisted /\ ListedWhenStored)
    /\ [][PersistedBeforeEmitted]_vars

\* A notification emitted to a room with no socket in it is in the list
\* answered to its target.
C14_Witness ==
    /\ resp.op = "list" /\ resp.status = 200 /\ resp.out # <<>>
    /\ \E i \in 1..Len(emitted) :
          /\ emitted[i].room = resp.actor /\ emitted[i].to = {}
          /\ \E j \in Range(resp.out) :
                EventOf(notifications[j]) = [f \in DOMAIN EventOf(notifications[j]) |->
                                                emitted[i][f]]

\* C19: a socket is only ever in the room of the user whose client opened
\* it, and every event emitted reached only sockets of the user it was
\* emitted for, each once.
C19_DeliveryIsolated ==
    /\ \A k \in SocketIds : sockets[k].rooms \subseteq {sockets[k].user}
    /\ \A i \in 1..Len(emitted) :
          \A k \in emitted[i].to : sockets[k].user = emitted[i].room

-----------------------------------------------------------------------------
(* Comments, updates and deletes: what the claims are stated in *)

\* C15: a comment on an existing post, that the store did not fail, is
\* answered 400 when its content is empty or longer than 100 characters, the
\* comments of the post and the notifications left as they were; with 1 to
\* 100 characters it is answered with success and the comments of the post
\* are those before with the new comment after them; under either revision.
C15_CommentLength ==
    (resp.op = "comment" /\ ~resp.fault /\ PostBefore.ok)
        => IF resp.body.content = 0 \/ resp.body.content > MaxCommentLen
           THEN /\ resp.status = 400
                /\ posts[resp.arg].comments = PostBefore.comments
                /\ NothingNotified
           ELSE /\ resp.status = 200
                /\ posts[resp.arg].comments =
                      Append(PostBefore.comments,
                             [userId |-> resp.actor, content |-> resp.body.content])

-----------------------------------------------------------------------------
(* DELETE /api/posts/:postId (server.js only) *)

\* await Post.findById(postId), the 404 and the 403
DeleteFindPost(s) ==
    /\ reqs[s].pc = "delete1"
    /\ LET post == FindPost(reqs[s].arg)
       IN  IF ~post.ok THEN Respond(s, 404, <<>>)
           ELSE IF ~IsAuthor(post, reqs[s].actor) THEN Respond(s, 403, <<>>)
           ELSE /\ reqs' = [reqs EXCEPT ![s].pc = "deleteOne", ![s].p = post]
                /\ resp' = NoResp
    /\ UNCHANGED <<rev, users, posts, notifications, emitted, nreq, hist>>

\* await post.deleteOne() and res.json
DeleteOne(s) ==
    /\ reqs[s].pc = "deleteOne"
    /\ posts' = [posts EXCEPT ![reqs[s].arg] = NoPost]
    /\ Respond(s, 200, <<>>)
    /\ UNCHANGED <<rev, users, notifications, emitted, nreq, hist>>

Delete(s) ==
    \/ DeleteFindPost(s)
    \/ DeleteOne(s)

BeginDelete(s) ==
    /\ rev = "server"
    /\ \E actor \in UserIds, post \in PostIds :
           Begin(s, "delete", actor, post, NoBody, "delete1")

\* Updates, deletes and likes served one after the other; any awaited store
\* operation may reject.
NextOwner ==
    \/ BeginUpdate(1) /\ LiveUnchanged
    \/ Update(1) /\ LiveUnchanged
    \/ BeginDelete(1) /\ LiveUnchanged
    \/ Delete(1) /\ LiveUnchanged
    \/ BeginLike(1) /\ LiveUnchanged
    \/ Like(1) /\ LiveUnchanged
    \/ Fail(1) /\ LiveUnchanged

SpecOwner == InitPosts /\ [][NextOwner]_vars

\* An update or delete of an absent post is answered 404, and one by an
\* actor who is not the author 403 (unless the store rejected the read); the
\* post is then as it was.
RefusedUnlessAuthor ==
    (resp.op \in {"update", "delete"})
        => /\ ~PostBefore.ok => (resp.status = 404 \/ resp.fault) /\ posts = resp.pre.posts
           /\ (PostBefore.ok /\ PostBefore.author # resp.actor)
                 => (resp.status = 403 \/ resp.fault) /\ posts[resp.arg] = PostBefore

\* A step that changes the content or the visibility of a post, or removes
\* it, is a step of an update or delete requested by its author.
ChangedByAuthorOnly ==
    \A p \in PostIds :
        (/\ posts[p].ok
         /\ \/ ~posts'[p].ok
            \/ posts'[p].content # posts[p].content
            \/ posts'[p].visibility # posts[p].visibility)
            => \E s \in Slots :
                  /\ reqs[s].op \in {"update", "delete"}
                  /\ reqs[s].arg = p
                  /\ reqs[s].actor = posts[p].author

\* C16: an update or delete by an actor who is not the author is answered
\* 403 and leaves the post as it was, on an absent post it is answered 404;
\* only a request of its author ever changes the content or visibility of a
\* post or removes it.
C16_AuthorOnly ==
    /\ []RefusedUnlessAuthor
    /\ [][ChangedByAuthorOnly]_vars

\* An update by another user was answered 403 on a post its author had
\* updated before.
C16_Witness ==
    /\ resp.op = "update" /\ resp.status = 403
    /\ posts[resp.arg].ok /\ posts[resp.arg].content = 2
    /\ posts[resp.arg] = PostBefore

=============================================================================
